---- MODULE Spec2Model ----
(***************************************************************************)
(* Terminal-Tutor: the state validation engine (validator.ts), its        *)
(* collaborators (the filesystem, git through executeCommand) and the      *)
(* operations a session performs on the working directory.                 *)
(*                                                                         *)
(* A JavaScript string is a sequence of one-character strings, so that     *)
(* toLowerCase, replace, trim, split and the path functions are computed   *)
(* character by character as the code computes them.                       *)
(***************************************************************************)
EXTENDS Integers, Sequences, FiniteSets, TLC

(***************************************************************************)
(* Strings                                                                 *)
(***************************************************************************)

\* JavaScript's undefined (a missing optional field of a descriptor).
UNDEF == <<"<undefined>">>

\* String(undefined): what a template literal or String.prototype.includes
\* makes of undefined.
UndefinedText == <<"u","n","d","e","f","i","n","e","d">>

ToText(s) == IF s = UNDEF THEN UndefinedText ELSE s

UpperChars == <<"A","B","C","D","E","F","G","H","I","J","K","L","M",
                "N","O","P","Q","R","S","T","U","V","W","X","Y","Z">>

LowerChars == <<"a","b","c","d","e","f","g","h","i","j","k","l","m",
                "n","o","p","q","r","s","t","u","v","w","x","y","z">>

LowerChar(c) ==
  IF \E i \in 1..Len(UpperChars) : UpperChars[i] = c
  THEN LowerChars[CHOOSE i \in 1..Len(UpperChars) : UpperChars[i] = c]
  ELSE c

\* String.prototype.toLowerCase
\* Mutant of toLowerCase: the text is left as it is.
keepCase(s) == s

toLowerCase(s) == [i \in 1..Len(s) |-> LowerChar(s[i])]

\* the characters String.prototype.trim removes
IsSpace(c) == c \in {" ", "\t", "\n", "\r"}

\* s.replace(/\\/g, '/')
ReplaceBackslashes(s) == [i \in 1..Len(s) |-> IF s[i] = "\\" THEN "/" ELSE s[i]]

\* s.replace(/\r/g, '')
StripCR(s) == SelectSeq(s, LAMBDA c : c # "\r")

\* the length of the run of '/' that starts at position i
RECURSIVE SlashRun(_, _)
SlashRun(s, i) == IF i <= Len(s) /\ s[i] = "/" THEN 1 + SlashRun(s, i + 1) ELSE 0

\* s.replace(/^\.\/+/, ''): one leading '.', and the slashes that follow it
StripDotSlash(s) ==
  IF Len(s) >= 2 /\ s[1] = "." /\ s[2] = "/"
  THEN SubSeq(s, 2 + SlashRun(s, 2), Len(s))
  ELSE s

RECURSIVE TrimLeft(_)
TrimLeft(s) == IF Len(s) > 0 /\ IsSpace(s[1]) THEN TrimLeft(Tail(s)) ELSE s

RECURSIVE TrimRight(_)
TrimRight(s) ==
  IF Len(s) > 0 /\ IsSpace(s[Len(s)]) THEN TrimRight(SubSeq(s, 1, Len(s) - 1)) ELSE s

\* String.prototype.trim
Trim(s) == TrimRight(TrimLeft(s))

normalizeRel(p) == Trim(StripDotSlash(ReplaceBackslashes(p)))

normalizeGitEntry(p) == normalizeRel(StripCR(p))

\* String.prototype.includes
includes(s, sub) ==
  \E i \in 1..(Len(s) + 1) :
    /\ i + Len(sub) - 1 <= Len(s)
    /\ SubSeq(s, i, i + Len(sub) - 1) = sub

\* Array.prototype.includes on an array of strings
ArrayIncludes(list, x) == \E i \in 1..Len(list) : list[i] = x

(***************************************************************************)
(* Paths (node:path, POSIX flavour: the paths handed to it hold only '/')  *)
(***************************************************************************)

\* String.prototype.split on a one-character separator, empty pieces kept
RECURSIVE Split(_, _)
Split(s, sep) ==
  IF \E i \in 1..Len(s) : s[i] = sep
  THEN LET i == CHOOSE j \in 1..Len(s) :
                  s[j] = sep /\ \A k \in 1..(j - 1) : s[k] # sep
       IN  <<SubSeq(s, 1, i - 1)>> \o Split(SubSeq(s, i + 1, Len(s)), sep)
  ELSE <<s>>

SplitSlash(p) == Split(p, "/")

RECURSIVE StripTrailingSlashes(_)
StripTrailingSlashes(p) ==
  IF Len(p) > 1 /\ p[Len(p)] = "/"
  THEN StripTrailingSlashes(SubSeq(p, 1, Len(p) - 1))
  ELSE p

\* path.basename
basename(p) ==
  LET q == StripTrailingSlashes(p)
      parts == SplitSlash(q)
  IN  parts[Len(parts)]

\* path.dirname
dirname(p) ==
  LET q == StripTrailingSlashes(p)
      slashes == {i \in 1..Len(q) : q[i] = "/"}
  IN  IF slashes = {} THEN <<".">>
      ELSE LET last == CHOOSE i \in slashes : \A j \in slashes : j <= i
               head == StripTrailingSlashes(SubSeq(q, 1, last))
           IN  IF \A i \in 1..Len(head) : head[i] = "/" THEN <<"/">>
               ELSE IF head[Len(head)] = "/" THEN SubSeq(head, 1, Len(head) - 1)
               ELSE head

\* The segments of a relative path after path.normalize: '.' and empty
\* segments dropped, 'x/..' folded; a '..' that climbs out is kept.
RECURSIVE FoldSegments(_, _)
FoldSegments(todo, done) ==
  IF todo = <<>> THEN done
  ELSE LET s == Head(todo)
       IN  IF s = <<>> \/ s = <<".">> THEN FoldSegments(Tail(todo), done)
           ELSE IF s = <<".", ".">> /\ done # <<>> /\ done[Len(done)] # <<".", ".">>
                THEN FoldSegments(Tail(todo), SubSeq(done, 1, Len(done) - 1))
           ELSE FoldSegments(Tail(todo), Append(done, s))

Segments(p) == FoldSegments(SplitSlash(p), <<>>)

RECURSIVE JoinSegments(_)
JoinSegments(segs) ==
  IF segs = <<>> THEN <<>>
  ELSE IF Len(segs) = 1 THEN segs[1]
  ELSE segs[1] \o <<"/">> \o JoinSegments(Tail(segs))

\* path.join(a, b) for relative a and b
join(a, b) ==
  LET segs == Segments(a \o <<"/">> \o b)
  IN  IF segs = <<>> THEN <<".">> ELSE JoinSegments(segs)

(***************************************************************************)
(* The names a session uses                                                *)
(***************************************************************************)

README_md == <<"R","E","A","D","M","E",".","m","d">>
readme_md == <<"r","e","a","d","m","e",".","m","d">>
Readme_md == <<"R","e","a","d","m","e",".","m","d">>
docs      == <<"d","o","c","s">>
dotgit    == <<".","g","i","t">>

\* file texts: one that holds the word "undefined", one that does not
HelloText == <<"H","e","l","l","o">>
NoteText  == <<"u","n","d","e","f","i","n","e","d"," ","y","e","t">>

\* commit messages and branch names
InitialCommit == <<"I","n","i","t","i","a","l"," ","c","o","m","m","i","t">>
AddReadme     == <<"a","d","d"," ","r","e","a","d","m","e">>
main          == <<"m","a","i","n">>
feature       == <<"f","e","a","t","u","r","e">>

\* A path of the working directory is the sequence of its segments.
RootFiles == {README_md, readme_md, Readme_md}
DiskPaths == {<<n>> : n \in RootFiles} \cup {<<docs>>, <<docs, readme_md>>}

\* readdir's order of the names of one directory
DirOrder == <<dotgit, README_md, Readme_md, docs, readme_md>>

\* what a path of the working directory holds
Nothing    == [kind |-> "none",   text |-> <<>>]
Folder     == [kind |-> "dir",    text |-> <<>>]
DeadLink   == [kind |-> "broken", text |-> <<>>]
File(text) == [kind |-> "file",   text |-> text]

Texts == {HelloText, NoteText}

\* The paths git holds in its index and its commits, in git's output order.
GitOrder == <<README_md, Readme_md, readme_md>>
GitPaths == {GitOrder[i] : i \in 1..Len(GitOrder)}

CommitMessages == {InitialCommit, AddReadme}
BranchNames    == {main, feature}
BranchOrder    == <<feature, main>>

\* the git commands the engine runs through executeCommand
Commands == {"diff-cached", "ls-files", "log-path", "log-1", "branch", "show-current"}

(***************************************************************************)
(* State                                                                   *)
(***************************************************************************)

VARIABLES
  disk,      \* working directory: DiskPaths -> what the path holds
  repo,      \* a .git directory exists (git init was run)
  tracked,   \* the paths of git's index (git ls-files)
  staged,    \* the paths whose index entry differs from HEAD (git diff --cached)
  commits,   \* the history of the current branch, oldest first
  branches,  \* the branches that exist (none before the first commit)
  current,   \* the branch HEAD names
  check,     \* the descriptor of the latest validateStep call, NoCheck if none
  failing,   \* the git commands whose subprocess failed during that call
  verdict,   \* what that call returned (or threw)
  norm,      \* a path handed to the normalizer and what came back, NoNorm if none
  run        \* the position of runLesson / runStep, NoRun outside a lesson

vars == <<disk, repo, tracked, staged, commits, branches, current, check, failing, verdict,
          norm, run>>

world == <<disk, repo, tracked, staged, commits, branches, current>>

(***************************************************************************)
(* Collaborators: the filesystem                                           *)
(***************************************************************************)

\* JavaScript's null
NULL == <<"<null>">>

\* the separator of git's -z listings
NUL == "NUL"

Holds(path) ==
  IF path \in DiskPaths THEN disk[path]
  ELSE IF path = <<dotgit>> /\ repo THEN Folder
  ELSE Nothing

\* A directory below the working directory, as segments; a directory the
\* path climbs out to (the parent of the working directory) starts with '..'.
Outside(dir) == dir # <<>> /\ dir[1] = <<".", ".">>

\* path.dirname(path.join(cwd, rel)), relative to cwd
DirAbs(rel) ==
  LET abs == Segments(rel)
  IN  IF abs = <<>> \/ Outside(abs) THEN << <<".", ".">> >>
      ELSE SubSeq(abs, 1, Len(abs) - 1)

\* fs.readdir: the names in the directory, or an error
readdir(dir) ==
  IF Outside(dir) \/ (dir # <<>> /\ Holds(dir).kind # "dir")
  THEN [ok |-> FALSE, entries |-> <<>>]
  ELSE [ok |-> TRUE,
        entries |-> SelectSeq(DirOrder, LAMBDA n : Holds(Append(dir, n)).kind # "none")]

\* fs.stat (it follows links): a regular file, a directory, or an error
stat(path) ==
  LET h == IF path = <<>> THEN Folder ELSE Holds(path)
  IN  [ok |-> h.kind \in {"file", "dir"}, isFile |-> h.kind = "file"]

\* fs.readFile of a regular file
readFile(path) == Holds(path).text

(***************************************************************************)
(* Collaborators: git, through executeCommand                              *)
(***************************************************************************)

Digits == <<"1","2","3","4","5","6","7","8","9">>

\* the abbreviated hash of the i-th commit
Hash(i) == <<"c","0","d","e","0","0">> \o <<Digits[i]>>

RECURSIVE ListZ(_, _)
ListZ(order, set) ==
  IF order = <<>> THEN <<>>
  ELSE (IF Head(order) \in set THEN Head(order) \o <<NUL>> ELSE <<>>)
       \o ListZ(Tail(order), set)

\* git log --oneline, newest first, of the commits among 1..n that touch a
\* path of `paths`; execa drops the final newline
RECURSIVE LogLines(_, _)
LogLines(n, paths) ==
  IF n = 0 THEN <<>>
  ELSE IF commits[n].paths \cap paths = {} THEN LogLines(n - 1, paths)
  ELSE LET rest == LogLines(n - 1, paths)
       IN  Hash(n) \o <<" ">> \o commits[n].message
           \o (IF rest = <<>> THEN <<>> ELSE <<"\n">> \o rest)

RECURSIVE BranchLines(_)
BranchLines(order) ==
  IF order = <<>> THEN <<>>
  ELSE LET rest == BranchLines(Tail(order))
           b    == Head(order)
       IN  IF b \notin branches THEN rest
           ELSE (IF b = current THEN <<"*", " ">> ELSE <<" ", " ">>) \o b
                \o (IF rest = <<>> THEN <<>> ELSE <<"\n">> \o rest)

Failed == [success |-> FALSE, stdout |-> <<>>]
Ran(out) == [success |-> TRUE, stdout |-> out]

\* executeCommand(cmd, cwd) for the git commands of the engine: success is
\* exit code 0; a timeout or spawn error of this call (fail) is a failure.
executeCommand(cmd, arg, fail) ==
  IF cmd \in fail \/ ~repo THEN Failed
  ELSE CASE cmd = "diff-cached"  -> Ran(ListZ(GitOrder, staged))
         [] cmd = "ls-files"     -> Ran(ListZ(GitOrder, tracked))
         [] cmd = "log-path"     -> IF commits = <<>> THEN Failed
                                    ELSE Ran(LogLines(Len(commits), {arg}))
         [] cmd = "log-1"        -> IF commits = <<>> THEN Failed
                                    ELSE Ran(Hash(Len(commits)) \o <<" ">>
                                             \o commits[Len(commits)].message)
         [] cmd = "branch"       -> Ran(BranchLines(BranchOrder))
         [] cmd = "show-current" -> Ran(current)

(***************************************************************************)
(* validator.ts: helpers                                                   *)
(***************************************************************************)

Msg(kind, names) == [kind |-> kind, names |-> names, type |-> ""]

\* a returned ValidationResult
Result(passed, message, resolvedFile, notes) ==
  [thrown |-> FALSE, passed |-> passed, message |-> message,
   resolvedFile |-> resolvedFile, notes |-> notes]

\* an exception leaving the function
Throw(message) ==
  [thrown |-> TRUE, passed |-> FALSE, message |-> message,
   resolvedFile |-> UNDEF, notes |-> <<>>]

TypeError == Msg("Cannot read properties of undefined", <<>>)
NotIterable == Msg("files is not iterable", <<>>)
StatError(name) == Msg("ENOENT: no such file or directory, stat {0}", <<name>>)

\* Mutant of getCaseMatches: the entries are compared exactly, case and all.
getCaseMatchesExact(dir, targetName) ==
  LET r == readdir(dir)
  IN  IF ~r.ok THEN <<>>
      ELSE SelectSeq(r.entries, LAMBDA e : e = targetName)

getCaseMatches(dir, targetName) ==
  LET r == readdir(dir)
      target == toLowerCase(targetName)
  IN  IF ~r.ok THEN <<>>
      ELSE SelectSeq(r.entries, LAMBDA e : toLowerCase(e) = target)

\* Mutant of getActualFilename: among several matches the exact one is taken.
getActualFilenamePreferExact(dir, targetName) ==
  LET matches == getCaseMatches(dir, targetName)
  IN  IF Len(matches) = 0 THEN [thrown |-> FALSE, value |-> NULL, message |-> Msg("", <<>>)]
      ELSE IF Len(matches) = 1
           THEN [thrown |-> FALSE, value |-> matches[1], message |-> Msg("", <<>>)]
      ELSE IF ArrayIncludes(matches, targetName)
           THEN [thrown |-> FALSE, value |-> targetName, message |-> Msg("", <<>>)]
      ELSE [thrown |-> TRUE, value |-> NULL,
            message |-> Msg("Multiple entries match {0} with different casing: {1..}. Keep only one.",
                            <<targetName>> \o matches)]

\* value: the one matching entry, or null; thrown: two or more match
getActualFilename(dir, targetName) ==
  LET matches == getCaseMatches(dir, targetName)
  IN  IF Len(matches) = 0 THEN [thrown |-> FALSE, value |-> NULL, message |-> Msg("", <<>>)]
      ELSE IF Len(matches) = 1
           THEN [thrown |-> FALSE, value |-> matches[1], message |-> Msg("", <<>>)]
      ELSE [thrown |-> TRUE, value |-> NULL,
            message |-> Msg("Multiple entries match {0} with different casing: {1..}. Keep only one.",
                            <<targetName>> \o matches)]

\* res.stdout.split('\0').map(normalizeGitEntry).filter(Boolean)
ParseEntries(stdout) ==
  LET pieces == Split(stdout, NUL)
      mapped == [i \in 1..Len(pieces) |-> normalizeGitEntry(pieces[i])]
  IN  SelectSeq(mapped, LAMBDA e : e # <<>>)

getStagedEntries(fail) ==
  LET res == executeCommand("diff-cached", <<>>, fail)
  IN  IF ~res.success THEN [ok |-> FALSE, list |-> <<>>]
      ELSE [ok |-> TRUE, list |-> ParseEntries(res.stdout)]

getTrackedEntries(fail) ==
  LET res == executeCommand("ls-files", <<>>, fail)
  IN  IF ~res.success THEN [ok |-> FALSE, list |-> <<>>]
      ELSE [ok |-> TRUE, list |-> ParseEntries(res.stdout)]

\* Mutant of uniqueCaseInsensitiveMatch: only an entry equal to the target,
\* case and all, is a match.
uniqueExactMatch(list, target) ==
  LET hits == SelectSeq(list, LAMBDA x : x = target)
  IN  IF Len(hits) = 0 THEN [match |-> NULL, ambiguous |-> FALSE]
      ELSE IF Len(hits) = 1 THEN [match |-> hits[1], ambiguous |-> FALSE]
      ELSE [match |-> NULL, ambiguous |-> TRUE]

uniqueCaseInsensitiveMatch(list, target) ==
  LET t == toLowerCase(target)
      hits == SelectSeq(list, LAMBDA x : toLowerCase(x) = t)
  IN  IF Len(hits) = 0 THEN [match |-> NULL, ambiguous |-> FALSE]
      ELSE IF Len(hits) = 1 THEN [match |-> hits[1], ambiguous |-> FALSE]
      ELSE [match |-> NULL, ambiguous |-> TRUE]

(***************************************************************************)
(* validator.ts: the evaluators.  cwd is the working directory of the      *)
(* state; fail is the set of git commands whose subprocess fails.          *)
(***************************************************************************)

validateGitInitialized ==
  IF Holds(<<dotgit>>).kind # "none"
  THEN Result(TRUE, Msg("Git repository initialized successfully", <<>>), UNDEF, <<>>)
  ELSE Result(FALSE, Msg("Git repository not found. Try: git init", <<>>), UNDEF, <<>>)

\* normalizeRel(path.join(path.dirname(rel), actualBase))
ResolvedRel(rel, actualBase) == normalizeRel(join(dirname(rel), actualBase))

CaseNote(actual, expected) ==
  Msg("Note: File exists as {0} instead of {1}", <<actual, expected>>)

validateFileExists(file) ==
  IF file = UNDEF THEN Throw(TypeError)
  ELSE
  LET rel == normalizeRel(file)
      dirAbs == DirAbs(rel)
      expectedBase == basename(rel)
      found == getActualFilename(dirAbs, expectedBase)
      actualBase == found.value
  IN  IF found.thrown THEN Result(FALSE, found.message, UNDEF, <<>>)
      ELSE IF actualBase = NULL
           THEN Result(FALSE, Msg("File {0} not found", <<file>>), UNDEF, <<>>)
      ELSE LET st == stat(Append(dirAbs, actualBase))
           IN  IF ~st.ok THEN Throw(StatError(actualBase))
               ELSE IF ~st.isFile
                    THEN Result(FALSE,
                           Msg("A folder named {0} exists, but a file named {1} is required. Do not use mkdir. Fix: {fix}",
                               <<actualBase, expectedBase>>),
                           ResolvedRel(rel, actualBase), <<>>)
               ELSE Result(TRUE,
                           Msg("File {0} exists (as {1})", <<file, actualBase>>),
                           ResolvedRel(rel, actualBase),
                           IF actualBase # expectedBase
                           THEN <<CaseNote(actualBase, expectedBase)>> ELSE <<>>)

\* The loop of validateFilesExist from position i on; missing, wrongType
\* and wrongCase are the arrays collected so far.
\* Mutant of FilesExistVerdict: missing paths are reported before folders.
FilesExistVerdictMissingFirst(missing, wrongType, wrongCase) ==
  IF Len(missing) > 0
  THEN Result(FALSE, Msg("Missing files: {0..}", missing), UNDEF, <<>>)
  ELSE IF Len(wrongType) > 0
       THEN Result(FALSE, Msg("A folder exists where a file is required: {0..}", wrongType),
                   UNDEF, <<>>)
  ELSE Result(TRUE, Msg("All files exist", <<>>), UNDEF, <<>>)

\* validateFilesExist after the loop: folders first, then the notes, then
\* the missing paths
FilesExistVerdict(missing, wrongType, wrongCase) ==
  IF Len(wrongType) > 0
  THEN Result(FALSE, Msg("A folder exists where a file is required: {0..}", wrongType),
              UNDEF, <<>>)
  ELSE LET notes == [k \in 1..Len(wrongCase) |->
                       CaseNote(wrongCase[k][2], wrongCase[k][1])]
       IN  IF Len(missing) = 0
           THEN Result(TRUE, Msg("All files exist", <<>>), UNDEF, notes)
           ELSE Result(FALSE, Msg("Missing files: {0..}", missing), UNDEF, notes)

RECURSIVE FilesExistLoop(_, _, _, _, _)
FilesExistLoop(files, i, missing, wrongType, wrongCase) ==
  IF i > Len(files)
  THEN FilesExistVerdict(missing, wrongType, wrongCase)
  ELSE
  LET file == files[i]
      rel == normalizeRel(file)
      dirAbs == DirAbs(rel)
      expectedBase == basename(rel)
      found == getActualFilename(dirAbs, expectedBase)
      actualBase == found.value
  IN  IF found.thrown THEN Result(FALSE, found.message, UNDEF, <<>>)
      ELSE IF actualBase = NULL
           THEN FilesExistLoop(files, i + 1, Append(missing, file), wrongType, wrongCase)
      ELSE LET st == stat(Append(dirAbs, actualBase))
           IN  IF ~st.ok THEN Throw(StatError(actualBase))
               ELSE IF ~st.isFile
                    THEN FilesExistLoop(files, i + 1, missing,
                                        wrongType \o <<expectedBase, actualBase>>, wrongCase)
               ELSE IF actualBase # expectedBase
                    THEN FilesExistLoop(files, i + 1, missing, wrongType,
                                        Append(wrongCase, <<expectedBase, actualBase>>))
               ELSE FilesExistLoop(files, i + 1, missing, wrongType, wrongCase)

\* an absent files field
NOFILES == <<UNDEF>>

\* Mutant of validateFilesExist: only the first listed path is looked at.
validateFilesExistFirstOnly(files) ==
  IF files = NOFILES THEN Throw(NotIterable)
  ELSE IF files = <<>> THEN Result(TRUE, Msg("All files exist", <<>>), UNDEF, <<>>)
  ELSE FilesExistLoop(<<files[1]>>, 1, <<>>, <<>>, <<>>)

validateFilesExist(files) ==
  IF files = NOFILES THEN Throw(NotIterable)
  ELSE FilesExistLoop(files, 1, <<>>, <<>>, <<>>)

StagedNote(match, file) ==
  Msg("Note: File staged as {0} instead of {1}", <<match, file>>)

\* Mutant of validateFileStaged: no verbatim test before the
\* case-insensitive one.
validateFileStagedNoVerbatim(file, fail) ==
  LET stagedFiles == getStagedEntries(fail)
  IN  IF ~stagedFiles.ok
      THEN Result(FALSE, Msg("Failed to check git status", <<>>), UNDEF, <<>>)
      ELSE IF file = UNDEF THEN Throw(TypeError)
      ELSE
      LET target == normalizeGitEntry(file)
          u == uniqueCaseInsensitiveMatch(stagedFiles.list, target)
      IN  IF u.ambiguous
          THEN Result(FALSE,
                      Msg("Multiple staged files match {0} ignoring case. Keep only one.",
                          <<file>>), UNDEF, <<>>)
          ELSE IF u.match # NULL
               THEN Result(TRUE, Msg("File {0} is staged (as {1})", <<file, u.match>>), UNDEF,
                           IF u.match # target THEN <<StagedNote(u.match, file)>> ELSE <<>>)
          ELSE Result(FALSE, Msg("File {0} is not staged. Try: git add {0}", <<file>>),
                      UNDEF, <<>>)

validateFileStaged(file, fail) ==
  LET stagedFiles == getStagedEntries(fail)
  IN  IF ~stagedFiles.ok
      THEN Result(FALSE, Msg("Failed to check git status", <<>>), UNDEF, <<>>)
      ELSE IF file = UNDEF THEN Throw(TypeError)
      ELSE
      LET target == normalizeGitEntry(file)
          u == uniqueCaseInsensitiveMatch(stagedFiles.list, target)
      IN  IF ArrayIncludes(stagedFiles.list, target)
          THEN Result(TRUE, Msg("File {0} is staged", <<file>>), UNDEF, <<>>)
          ELSE IF u.ambiguous
               THEN Result(FALSE,
                           Msg("Multiple staged files match {0} ignoring case. Keep only one.",
                               <<file>>), UNDEF, <<>>)
          ELSE IF u.match # NULL
               THEN Result(TRUE, Msg("File {0} is staged (as {1})", <<file, u.match>>), UNDEF,
                           IF u.match # target THEN <<StagedNote(u.match, file)>> ELSE <<>>)
          ELSE Result(FALSE, Msg("File {0} is not staged. Try: git add {0}", <<file>>),
                      UNDEF, <<>>)

\* Mutant of FilesStagedVerdict: only the first unstaged path is reported.
FilesStagedVerdictFirstOnly(unstaged, notes) ==
  IF Len(unstaged) = 0
  THEN Result(TRUE, Msg("All files are staged", <<>>), UNDEF, notes)
  ELSE Result(FALSE, Msg("Files not staged: {0..}", <<unstaged[1]>>), UNDEF, notes)

\* validateFilesStaged after the loop
FilesStagedVerdict(unstaged, notes) ==
  IF Len(unstaged) = 0
  THEN Result(TRUE, Msg("All files are staged", <<>>), UNDEF, notes)
  ELSE Result(FALSE, Msg("Files not staged: {0..}", unstaged), UNDEF, notes)

RECURSIVE FilesStagedLoop(_, _, _, _, _)
FilesStagedLoop(files, i, stagedList, unstaged, notes) ==
  IF i > Len(files)
  THEN FilesStagedVerdict(unstaged, notes)
  ELSE
  LET f == files[i]
      target == normalizeGitEntry(f)
      u == uniqueCaseInsensitiveMatch(stagedList, target)
  IN  IF ArrayIncludes(stagedList, target)
      THEN FilesStagedLoop(files, i + 1, stagedList, unstaged, notes)
      ELSE IF u.ambiguous
           THEN Result(FALSE,
                       Msg("Multiple staged files match {0} ignoring case. Keep only one.",
                           <<f>>), UNDEF, notes)
      ELSE IF u.match # NULL
           THEN FilesStagedLoop(files, i + 1, stagedList, unstaged,
                                IF u.match # target
                                THEN Append(notes, StagedNote(u.match, f)) ELSE notes)
      ELSE FilesStagedLoop(files, i + 1, stagedList, Append(unstaged, f), notes)

validateFilesStaged(files, fail) ==
  LET stagedFiles == getStagedEntries(fail)
  IN  IF ~stagedFiles.ok
      THEN Result(FALSE, Msg("Failed to check git status", <<>>), UNDEF, <<>>)
      ELSE IF files = NOFILES THEN Throw(NotIterable)
      ELSE FilesStagedLoop(files, 1, stagedFiles.list, <<>>, <<>>)

\* Mutant of NotYetCommitted: a staged file counts as committed.
StagedCountsAsCommitted(file, commitTarget, actualBase, fail) ==
  LET stagedList == getStagedEntries(fail)
  IN  IF stagedList.ok /\ ArrayIncludes(stagedList.list, commitTarget)
      THEN Result(TRUE, Msg("File {0} has been committed", <<file>>), commitTarget, <<>>)
      ELSE Result(FALSE,
                  Msg("Progress: file created. Next: stage it. Run: git add {0}",
                      <<actualBase>>), commitTarget, <<>>)

\* validateFileCommitted once git log shows no commit for commitTarget:
\* the staged list tells "commit it" from "stage it".
NotYetCommitted(file, commitTarget, actualBase, fail) ==
  LET stagedList == getStagedEntries(fail)
      su == uniqueCaseInsensitiveMatch(stagedList.list, commitTarget)
  IN  IF ~stagedList.ok
      THEN Result(FALSE, Msg("Failed to check git status", <<>>), UNDEF, <<>>)
      ELSE IF ArrayIncludes(stagedList.list, commitTarget)
           THEN Result(FALSE,
                       Msg("Progress: file staged. Next: commit it. Run: git commit -m add {0}",
                           <<basename(commitTarget)>>), commitTarget, <<>>)
      ELSE IF su.ambiguous
           THEN Result(FALSE,
                       Msg("Multiple staged files match {0} ignoring case. Keep only one.",
                           <<file>>), UNDEF, <<>>)
      ELSE IF su.match # NULL
           THEN Result(FALSE,
                       Msg("Progress: file staged. Next: commit it. Run: git commit -m add {0}",
                           <<basename(su.match)>>), su.match,
                       IF su.match # commitTarget
                       THEN <<StagedNote(su.match, commitTarget)>> ELSE <<>>)
      ELSE Result(FALSE,
                  Msg("Progress: file created. Next: stage it. Run: git add {0}",
                      <<actualBase>>), commitTarget, <<>>)

\* Mutant of CommittedFromTracked: the on-disk path is looked up in git log
\* as it is, without the tracked list.
CommittedFromDiskName(file, resolvedRel, actualBase, fail) ==
  LET logRes == executeCommand("log-path", resolvedRel, fail)
  IN  IF logRes.success /\ Trim(logRes.stdout) # <<>>
      THEN Result(TRUE, Msg("File {0} has been committed", <<file>>), resolvedRel, <<>>)
      ELSE NotYetCommitted(file, resolvedRel, actualBase, fail)

\* validateFileCommitted from the tracked-list reconciliation on:
\* resolvedRel is the on-disk path, actualBase its last segment.
CommittedFromTracked(file, resolvedRel, actualBase, fail) ==
  LET trackedList == getTrackedEntries(fail)
      u == uniqueCaseInsensitiveMatch(trackedList.list, resolvedRel)
      reconcile == trackedList.ok /\ ~ArrayIncludes(trackedList.list, resolvedRel)
      commitTarget == IF reconcile /\ u.match # NULL THEN u.match ELSE resolvedRel
  IN  IF reconcile /\ u.ambiguous
      THEN Result(FALSE,
                  Msg("Multiple tracked files match {0} ignoring case. Keep only one.",
                      <<file>>), UNDEF, <<>>)
      ELSE
      LET logRes == executeCommand("log-path", commitTarget, fail)
      IN  IF logRes.success /\ Trim(logRes.stdout) # <<>>
          THEN Result(TRUE, Msg("File {0} has been committed", <<file>>), commitTarget,
                      IF commitTarget # normalizeGitEntry(file)
                      THEN <<Msg("Note: File is tracked as {0} instead of {1}",
                                 <<commitTarget, file>>)>>
                      ELSE <<>>)
          ELSE NotYetCommitted(file, commitTarget, actualBase, fail)

validateFileCommitted(file, fail) ==
  IF file = UNDEF THEN Throw(TypeError)
  ELSE
  LET rel == normalizeRel(file)
      dirAbs == DirAbs(rel)
      expectedBase == basename(rel)
      found == getActualFilename(dirAbs, expectedBase)
      actualBase == found.value
  IN  IF found.thrown THEN Result(FALSE, found.message, UNDEF, <<>>)
      ELSE IF actualBase = NULL
           THEN Result(FALSE,
                       Msg("Progress: create the file {0}. Example: {hint}", <<expectedBase>>),
                       UNDEF, <<>>)
      ELSE LET st == stat(Append(dirAbs, actualBase))
           IN  IF ~st.ok THEN Throw(StatError(actualBase))
               ELSE IF ~st.isFile
                    THEN Result(FALSE,
                                Msg("A folder named {0} exists, but a file named {1} is required. Do not use mkdir.",
                                    <<actualBase, expectedBase>>), UNDEF, <<>>)
               ELSE CommittedFromTracked(file, ResolvedRel(rel, actualBase), actualBase, fail)

\* result.stdout.split(' ').slice(1).join(' ').trim()
RECURSIVE JoinSpace(_)
JoinSpace(parts) ==
  IF parts = <<>> THEN <<>>
  ELSE IF Len(parts) = 1 THEN parts[1]
  ELSE parts[1] \o <<" ">> \o JoinSpace(Tail(parts))

CommitMessageOf(stdout) == Trim(JoinSpace(Tail(Split(stdout, " "))))

\* Mutant of validateCommitExists: the expected message is not compared.
validateCommitExistsAnyMessage(message, fail) ==
  LET result == executeCommand("log-1", <<>>, fail)
  IN  IF ~result.success \/ Trim(result.stdout) = <<>>
      THEN Result(FALSE, Msg("No commits found. Try: git commit -m message", <<>>), UNDEF, <<>>)
      ELSE Result(TRUE, Msg("Commit exists", <<>>), UNDEF, <<>>)

validateCommitExists(message, fail) ==
  LET result == executeCommand("log-1", <<>>, fail)
  IN  IF ~result.success \/ Trim(result.stdout) = <<>>
      THEN Result(FALSE, Msg("No commits found. Try: git commit -m message", <<>>), UNDEF, <<>>)
      ELSE IF message # UNDEF /\ message # <<>>
           THEN IF includes(CommitMessageOf(result.stdout), message)
                THEN Result(TRUE, Msg("Commit created with expected message", <<>>), UNDEF, <<>>)
                ELSE Result(FALSE, Msg("Commit message doesn't match. Expected: {0}", <<message>>),
                            UNDEF, <<>>)
      ELSE Result(TRUE, Msg("Commit exists", <<>>), UNDEF, <<>>)

\* b.replace('*', ''): the first '*' only
DropFirstStar(b) ==
  IF \E i \in 1..Len(b) : b[i] = "*"
  THEN LET i == CHOOSE j \in 1..Len(b) : b[j] = "*" /\ \A k \in 1..(j - 1) : b[k] # "*"
       IN  SubSeq(b, 1, i - 1) \o SubSeq(b, i + 1, Len(b))
  ELSE b

validateBranchExists(branch, fail) ==
  LET result == executeCommand("branch", <<>>, fail)
  IN  IF ~result.success
      THEN Result(FALSE, Msg("Failed to list branches", <<>>), UNDEF, <<>>)
      ELSE
      LET lines == Split(result.stdout, "\n")
          listed == [i \in 1..Len(lines) |-> Trim(DropFirstStar(lines[i]))]
      IN  IF branch # UNDEF /\ ArrayIncludes(listed, branch)
          THEN Result(TRUE, Msg("Branch {0} exists", <<branch>>), UNDEF, <<>>)
          ELSE Result(FALSE, Msg("Branch {0} not found. Try: git branch {0}", <<branch>>),
                      UNDEF, <<>>)

\* Mutant of validateBranchActive: a branch that exists counts as active.
validateBranchActiveIfListed(branch, fail) ==
  LET result == executeCommand("show-current", <<>>, fail)
  IN  IF ~result.success
      THEN Result(FALSE, Msg("Failed to check current branch", <<>>), UNDEF, <<>>)
      ELSE IF branch # UNDEF /\ (Trim(result.stdout) = branch \/ branch \in branches)
           THEN Result(TRUE, Msg("On branch {0}", <<branch>>), UNDEF, <<>>)
           ELSE Result(FALSE,
                       Msg("Not on branch {0}. Current: {1}. Try: git checkout {0}",
                           <<branch, Trim(result.stdout)>>), UNDEF, <<>>)

validateBranchActive(branch, fail) ==
  LET result == executeCommand("show-current", <<>>, fail)
  IN  IF ~result.success
      THEN Result(FALSE, Msg("Failed to check current branch", <<>>), UNDEF, <<>>)
      ELSE
      LET currentBranch == Trim(result.stdout)
      IN  IF branch # UNDEF /\ currentBranch = branch
          THEN Result(TRUE, Msg("On branch {0}", <<branch>>), UNDEF, <<>>)
          ELSE Result(FALSE,
                      Msg("Not on branch {0}. Current: {1}. Try: git checkout {0}",
                          <<branch, currentBranch>>), UNDEF, <<>>)

\* The evaluator catches everything itself.  fileContent.includes(content)
\* converts an absent content to the text "undefined".
validateFileContains(file, content) ==
  IF file = UNDEF THEN Result(FALSE, Msg("Failed to read {0}", <<file>>), UNDEF, <<>>)
  ELSE
  LET rel == normalizeRel(file)
      filePath == Segments(rel)
      st == IF Outside(filePath) THEN [ok |-> FALSE, isFile |-> FALSE] ELSE stat(filePath)
  IN  IF ~st.ok THEN Result(FALSE, Msg("Failed to read {0}", <<file>>), UNDEF, <<>>)
      ELSE IF ~st.isFile
           THEN Result(FALSE, Msg("Expected a file but found a folder: {0}", <<file>>), UNDEF, <<>>)
      ELSE IF includes(readFile(filePath), ToText(content))
           THEN Result(TRUE, Msg("File {0} contains expected content", <<file>>), UNDEF, <<>>)
      ELSE Result(FALSE, Msg("File {0} doesn't contain expected content", <<file>>), UNDEF, <<>>)

(***************************************************************************)
(* validator.ts: the dispatcher                                            *)
(***************************************************************************)

\* a check descriptor (Validation)
Descriptor(type, file, files, branch, message, content) ==
  [type |-> type, file |-> file, files |-> files, branch |-> branch,
   message |-> message, content |-> content]

KnownTypes == {"git-initialized", "file-exists", "files-exist", "file-staged",
               "files-staged", "file-committed", "commit-exists", "branch-exists",
               "branch-active", "file-contains"}

\* Mutant of UnknownType: the message does not say which type it was.
UnknownTypeUnnamed(v) ==
  Result(FALSE, [kind |-> "Unknown validation type", names |-> <<>>, type |-> ""],
         UNDEF, <<>>)

\* the default case of the switch: `Unknown validation type: ${type}`
UnknownType(v) ==
  Result(FALSE,
         [kind |-> "Unknown validation type: {type}", names |-> <<>>, type |-> v.type],
         UNDEF, <<>>)

\* the switch of validateStep: what the selected evaluator returns or throws
Evaluate(v, fail) ==
  CASE v.type = "git-initialized" -> validateGitInitialized
    [] v.type = "file-exists"     -> validateFileExists(v.file)
    [] v.type = "files-exist"     -> validateFilesExist(v.files)
    [] v.type = "file-staged"     -> validateFileStaged(v.file, fail)
    [] v.type = "files-staged"    -> validateFilesStaged(v.files, fail)
    [] v.type = "file-committed"  -> validateFileCommitted(v.file, fail)
    [] v.type = "commit-exists"   -> validateCommitExists(v.message, fail)
    [] v.type = "branch-exists"   -> validateBranchExists(v.branch, fail)
    [] v.type = "branch-active"   -> validateBranchActive(v.branch, fail)
    [] v.type = "file-contains"   -> validateFileContains(v.file, v.content)
    [] OTHER -> UnknownType(v)

\* Mutant of validateStep: no try/catch around the switch.
validateStepNoCatch(v, fail) == Evaluate(v, fail)

\* the try/catch of validateStep: an exception becomes a failed result
\* carrying the error's message
validateStep(v, fail) ==
  LET r == Evaluate(v, fail)
  IN  IF r.thrown THEN Result(FALSE, r.message, UNDEF, r.notes) ELSE r

(***************************************************************************)
(* The check descriptors a lesson may hold                                 *)
(***************************************************************************)

\* '.\README.md' followed by a carriage return, and 'docs\README.md'
DotSlashReadme == <<".", "\\">> \o README_md \o <<"\r">>
DocsReadme     == docs \o <<"\\">> \o README_md

\* file fields: exact and case-variant names, a './' prefix, a backslash
\* path into a sub-directory, and no field at all
FileArgs == {README_md, readme_md, DotSlashReadme, DocsReadme, UNDEF}

FilesArgs == {<<>>, <<README_md>>, <<README_md, DocsReadme>>, <<docs, README_md>>, NOFILES}

Initial == <<"I","n","i","t","i","a","l">>
MessageArgs == {UNDEF, Initial, AddReadme}
BranchArgs  == {UNDEF, main, feature, <<>>}
ContentArgs == {UNDEF, HelloText}

\* type strings that name no check kind
Bogus == "file-exist"
UnknownTypes == {Bogus, ""}

\* the checks that look at the working directory only
FileDescriptors ==
       {Descriptor("git-initialized", UNDEF, NOFILES, UNDEF, UNDEF, UNDEF)}
  \cup {Descriptor("file-exists", f, NOFILES, UNDEF, UNDEF, UNDEF) : f \in FileArgs}
  \cup {Descriptor("files-exist", UNDEF, fs, UNDEF, UNDEF, UNDEF) : fs \in FilesArgs}
  \cup {Descriptor("file-contains", f, NOFILES, UNDEF, UNDEF, c) :
          f \in {README_md, readme_md, UNDEF}, c \in ContentArgs}
  \cup {Descriptor(t, README_md, NOFILES, UNDEF, UNDEF, UNDEF) : t \in UnknownTypes}

\* the checks that ask git
GitDescriptors ==
       {Descriptor(t, f, NOFILES, UNDEF, UNDEF, UNDEF) :
          t \in {"file-staged", "file-committed"},
          f \in (FileArgs \ {DocsReadme}) \cup {Readme_md}}
  \cup {Descriptor("files-staged", UNDEF, fs, UNDEF, UNDEF, UNDEF) :
          fs \in {<<>>, <<README_md>>, <<readme_md, README_md>>, <<Readme_md>>,
                  <<docs, README_md>>, NOFILES}}
  \cup {Descriptor("commit-exists", UNDEF, NOFILES, UNDEF, m, UNDEF) : m \in MessageArgs}
  \cup {Descriptor(t, UNDEF, NOFILES, b, UNDEF, UNDEF) :
          t \in {"branch-exists", "branch-active"}, b \in BranchArgs}

Descriptors == FileDescriptors \cup GitDescriptors

\* the git commands an evaluator may run
CommandsOf(type) ==
  CASE type = "file-staged"    -> {"diff-cached"}
    [] type = "files-staged"   -> {"diff-cached"}
    [] type = "file-committed" -> {"ls-files", "log-path", "diff-cached"}
    [] type = "commit-exists"  -> {"log-1"}
    [] type = "branch-exists"  -> {"branch"}
    [] type = "branch-active"  -> {"show-current"}
    [] OTHER -> {}

\* What the executor may do to the git commands of one validateStep call:
\* any of the commands the evaluator runs may fail; for a type string that
\* selects no evaluator, none fails or all do.
FailuresFor(type) ==
  IF type \in KnownTypes THEN SUBSET CommandsOf(type) ELSE {{}, Commands}

(***************************************************************************)
(* Bounds                                                                  *)
(***************************************************************************)

\* the commits of a session, at most
MaxCommits == 1

\* the commits of a session that looks at the log only
MaxLog == 2

\* the longest path handed to the normalizer, and how often its result is
\* normalized again
MaxLen == 4
MaxPasses == 2

(***************************************************************************)
(* Operations                                                              *)
(***************************************************************************)

NoCheck   == Descriptor("none", UNDEF, NOFILES, UNDEF, UNDEF, UNDEF)
NoVerdict == Result(FALSE, Msg("none", <<>>), UNDEF, <<>>)

\* no path is being normalized, no lesson is being run
NoNorm == [fn |-> "none", given |-> <<>>, result |-> <<>>, passes |-> 0]
NoRun  == [pc |-> "none"]

\* an empty working directory without a repository, nothing validated yet
Fresh ==
  /\ disk = [p \in DiskPaths |-> Nothing]
  /\ repo = FALSE
  /\ tracked = {}
  /\ staged = {}
  /\ commits = <<>>
  /\ branches = {}
  /\ current = main
  /\ check = NoCheck
  /\ failing = {}
  /\ verdict = NoVerdict

Init ==
  /\ Fresh
  /\ norm = NoNorm
  /\ run = NoRun

\* Commands run between validations: runStep executes the typed command,
\* validates once and reports the verdict before the next prompt.
\* Within a lesson the command is the one runStep executes for the attempt
\* (executeCommand(command, workdir)); here it exits with status 0.
Idle ==
  /\ check = NoCheck
  /\ UNCHANGED <<check, failing, verdict, norm>>
  /\ IF run = NoRun
     THEN UNCHANGED run
     ELSE /\ run.pc = "execute"
          /\ run' = [run EXCEPT !.pc = "validate", !.executed = @ + 1, !.exit = 0]

ParentIsFolder(p) ==
  IF Len(p) = 1 THEN TRUE ELSE disk[SubSeq(p, 1, Len(p) - 1)].kind = "dir"

Below(p) == {q \in DiskPaths : Len(q) > Len(p) /\ SubSeq(q, 1, Len(p)) = p}

\* echo text > p
WriteFile(p, text) ==
  /\ p # <<docs>>
  /\ ParentIsFolder(p)
  /\ disk[p].kind \in {"none", "file"}
  /\ disk[p] # File(text)
  /\ disk' = [disk EXCEPT ![p] = File(text)]
  /\ Idle
  /\ UNCHANGED <<repo, tracked, staged, commits, branches, current>>

\* mkdir p
Mkdir(p) ==
  /\ ParentIsFolder(p)
  /\ disk[p].kind = "none"
  /\ disk' = [disk EXCEPT ![p] = Folder]
  /\ Idle
  /\ UNCHANGED <<repo, tracked, staged, commits, branches, current>>

\* ln -s missing p: an entry that readdir lists and stat cannot follow
Symlink(p) ==
  /\ p # <<docs>>
  /\ ParentIsFolder(p)
  /\ disk[p].kind = "none"
  /\ disk' = [disk EXCEPT ![p] = DeadLink]
  /\ Idle
  /\ UNCHANGED <<repo, tracked, staged, commits, branches, current>>

\* rm -rf p
Remove(p) ==
  /\ disk[p].kind # "none"
  /\ disk' = [q \in DiskPaths |-> IF q = p \/ q \in Below(p) THEN Nothing ELSE disk[q]]
  /\ Idle
  /\ UNCHANGED <<repo, tracked, staged, commits, branches, current>>

\* git init
GitInit ==
  /\ ~repo
  /\ repo' = TRUE
  /\ Idle
  /\ UNCHANGED <<disk, tracked, staged, commits, branches, current>>

\* git add p, of a regular file of the working directory
GitAdd(p) ==
  /\ repo
  /\ disk[<<p>>].kind = "file"
  /\ tracked' = tracked \cup {p}
  /\ staged' = staged \cup {p}
  /\ <<tracked', staged'>> # <<tracked, staged>>
  /\ Idle
  /\ UNCHANGED <<disk, repo, commits, branches, current>>

\* git commit -m message: the staged paths go into a commit.  Commits are
\* made while one branch exists, so every branch names the latest commit.
GitCommitUpTo(message, limit) ==
  /\ repo
  /\ staged # {}
  /\ Len(commits) < limit
  /\ branches \subseteq {current}
  /\ commits' = Append(commits, [message |-> message, paths |-> staged])
  /\ staged' = {}
  /\ branches' = {current}
  /\ Idle
  /\ UNCHANGED <<disk, repo, tracked, current>>

GitCommit(message) == GitCommitUpTo(message, MaxCommits)

\* git branch b
GitBranch(b) ==
  /\ repo
  /\ commits # <<>>
  /\ b \notin branches
  /\ branches' = branches \cup {b}
  /\ Idle
  /\ UNCHANGED <<disk, repo, tracked, staged, commits, current>>

\* git checkout b
GitCheckout(b) ==
  /\ repo
  /\ b \in branches
  /\ b # current
  /\ current' = b
  /\ Idle
  /\ UNCHANGED <<disk, repo, tracked, staged, commits, branches>>

\* Mutant of Validate: the call refreshes the index, dropping what is staged.
ValidateResettingIndex(v, fail) ==
  /\ check = NoCheck
  /\ check' = v
  /\ failing' = fail
  /\ verdict' = validateStep(v, fail)
  /\ staged' = {}
  /\ UNCHANGED <<disk, repo, tracked, commits, branches, current, norm, run>>

\* one validateStep call; fail is the set of the evaluator's git commands
\* whose subprocess times out or cannot be spawned during the call
Validate(v, fail) ==
  /\ check = NoCheck
  /\ check' = v
  /\ failing' = fail
  /\ verdict' = validateStep(v, fail)
  /\ UNCHANGED world
  /\ UNCHANGED <<norm, run>>

\* runStep prints the verdict; the next attempt or step starts
Report ==
  /\ check # NoCheck
  /\ check' = NoCheck
  /\ failing' = {}
  /\ verdict' = NoVerdict
  /\ UNCHANGED world
  /\ UNCHANGED <<norm, run>>

\* Every command on every path, every check.
Next ==
  \/ \E p \in DiskPaths, t \in Texts : WriteFile(p, t)
  \/ \E p \in DiskPaths : Mkdir(p)
  \/ \E p \in DiskPaths : Symlink(p)
  \/ \E p \in DiskPaths : Remove(p)
  \/ GitInit
  \/ \E p \in GitPaths : GitAdd(p)
  \/ \E m \in CommitMessages : GitCommit(m)
  \/ \E b \in BranchNames : GitBranch(b)
  \/ \E b \in BranchNames : GitCheckout(b)
  \/ \E v \in Descriptors : \E fail \in FailuresFor(v.type) : Validate(v, fail)
  \/ Report

Spec == Init /\ [][Next]_vars

\* Sessions that work on the files of the working directory (files, folders
\* and dead links under every name) and run the checks that read it.
NextFiles ==
  \/ \E p \in DiskPaths, t \in Texts : WriteFile(p, t)
  \/ \E p \in DiskPaths : Mkdir(p)
  \/ \E p \in DiskPaths : Symlink(p)
  \/ \E p \in DiskPaths : Remove(p)
  \/ GitInit
  \/ \E v \in FileDescriptors : Validate(v, {})
  \/ Report

SpecFiles == Init /\ [][NextFiles]_vars

\* Sessions that create README.md and readme.md, stage and commit them and
\* branch, and run every check, with git subprocesses that may fail.
GitSessionPaths == {README_md, readme_md}

NextGit ==
  \/ \E p \in GitSessionPaths : WriteFile(<<p>>, HelloText)
  \/ Symlink(<<README_md>>)
  \/ \E p \in GitSessionPaths : Remove(<<p>>)
  \/ GitInit
  \/ \E p \in GitSessionPaths : GitAdd(p)
  \/ \E m \in CommitMessages : GitCommit(m)
  \/ \E b \in BranchNames : GitBranch(b)
  \/ \E b \in BranchNames : GitCheckout(b)
  \/ \E v \in Descriptors : \E fail \in FailuresFor(v.type) : Validate(v, fail)
  \/ Report

SpecGit == Init /\ [][NextGit]_vars

\* Sessions that write and remove files under every casing, stage and
\* commit README.md and readme.md, and run file-committed, with git
\* subprocesses that may fail.
CommittedDescriptors == {d \in GitDescriptors : d.type = "file-committed"}

NextCommitted ==
  \/ \E p \in RootFiles : WriteFile(<<p>>, HelloText)
  \/ \E p \in RootFiles : Remove(<<p>>)
  \/ GitInit
  \/ \E p \in GitSessionPaths : GitAdd(p)
  \/ \E m \in {AddReadme} : GitCommit(m)
  \/ \E v \in CommittedDescriptors : \E fail \in FailuresFor(v.type) : Validate(v, fail)
  \/ Report

SpecCommitted == Init /\ [][NextCommitted]_vars

\* Sessions that stage and commit README.md up to MaxLog times and run
\* commit-exists, with a git log that may fail.
LogDescriptors == {d \in GitDescriptors : d.type = "commit-exists"}

NextLog ==
  \/ \E t \in Texts : WriteFile(<<README_md>>, t)
  \/ GitInit
  \/ GitAdd(README_md)
  \/ \E m \in CommitMessages : GitCommitUpTo(m, MaxLog)
  \/ \E v \in LogDescriptors : \E fail \in FailuresFor(v.type) : Validate(v, fail)
  \/ Report

SpecLog == Init /\ [][NextLog]_vars

\* The normalizers on their own: every text of up to MaxLen characters out
\* of '.', '/', '\', space, carriage return and a letter is normalized, and
\* the result is normalized again.
PathChars == {".", "/", "\\", " ", "\r", "a"}

PathInputs == UNION {[1..k -> PathChars] : k \in 0..MaxLen}

InitNormalize ==
  /\ Fresh
  /\ run = NoRun
  /\ norm \in {[fn |-> f, given |-> x, result |-> x, passes |-> 0] :
                 f \in {"normalizeRel", "normalizeGitEntry"}, x \in PathInputs}

NormalizeRel ==
  /\ norm.fn = "normalizeRel"
  /\ norm.passes < MaxPasses
  /\ norm' = [norm EXCEPT !.result = normalizeRel(norm.result), !.passes = @ + 1]
  /\ UNCHANGED <<world, check, failing, verdict, run>>

NormalizeGitEntry ==
  /\ norm.fn = "normalizeGitEntry"
  /\ norm.passes < MaxPasses
  /\ norm' = [norm EXCEPT !.result = normalizeGitEntry(norm.result), !.passes = @ + 1]
  /\ UNCHANGED <<world, check, failing, verdict, run>>

NextNormalize == NormalizeRel \/ NormalizeGitEntry

SpecNormalize == InitNormalize /\ [][NextNormalize]_vars

(***************************************************************************)
(* runner.ts: runLesson and runStep                                        *)
(***************************************************************************)

step1 == <<"s","t","e","p","-","1">>
step2 == <<"s","t","e","p","-","2">>
step3 == <<"s","t","e","p","-","3">>

\* a lesson: initialise a repository, create README.md, stage it; the third
\* step has a setup file in a sub-directory
LessonSteps ==
  << [id |-> step1, setupFiles |-> <<>>,
      validation |-> Descriptor("git-initialized", UNDEF, NOFILES, UNDEF, UNDEF, UNDEF)],
     [id |-> step2, setupFiles |-> <<>>,
      validation |-> Descriptor("file-exists", README_md, NOFILES, UNDEF, UNDEF, UNDEF)],
     [id |-> step3, setupFiles |-> << <<docs, readme_md>> >>,
      validation |-> Descriptor("file-staged", README_md, NOFILES, UNDEF, UNDEF, UNDEF)] >>

\* const maxAttempts = 3
maxAttempts == 3

\* options.maxSteps: 0 stands for an option that is not set
MaxStepsOptions == {0, 1, 2}

\* Mutant of StepsToRun: maxSteps is ignored.
StepsToRunAll(maxSteps) == Len(LessonSteps)

\* options.maxSteps ? lesson.steps.slice(0, options.maxSteps) : lesson.steps,
\* as the number of steps to run
StepsToRun(maxSteps) ==
  IF maxSteps = 0 THEN Len(LessonSteps)
  ELSE IF maxSteps < Len(LessonSteps) THEN maxSteps ELSE Len(LessonSteps)

\* what the user types at the prompt: the command the step asks for, or
\* another one
CommandTexts == {"expected", "other"}

\* completedSteps of the lesson in progress.json when the lesson starts:
\* nothing, or the first step from an earlier run
PriorProgress == {<<>>, <<step1>>}

\* runLesson after loadLesson and createSandbox: the loop is at step 1.
\* passed is the set of steps whose validation passed, completed the
\* completedSteps of the progress store, before what it held at the start.
StartRun(maxSteps, prior) ==
  [pc |-> "setup", maxSteps |-> maxSteps, total |-> StepsToRun(maxSteps), index |-> 1,
   attempts |-> 0, executed |-> 0, validated |-> 0, typed |-> "", exit |-> 0,
   passed |-> {}, completed |-> prior, before |-> prior, why |-> ""]

InitLesson ==
  /\ Fresh
  /\ norm = NoNorm
  /\ run \in {StartRun(m, prior) : m \in MaxStepsOptions, prior \in PriorProgress}

CurrentStep == LessonSteps[run.index]

\* setupStep: mkdir -p and writeFile for each setup file; runStep starts
SetupStep ==
  /\ run.pc = "setup"
  /\ disk' = [p \in DiskPaths |->
               IF \E i \in 1..Len(CurrentStep.setupFiles) : CurrentStep.setupFiles[i] = p
               THEN File(HelloText)
               ELSE IF \E i \in 1..Len(CurrentStep.setupFiles) :
                         /\ Len(p) < Len(CurrentStep.setupFiles[i])
                         /\ SubSeq(CurrentStep.setupFiles[i], 1, Len(p)) = p
                    THEN Folder
                    ELSE disk[p]]
  /\ run' = [run EXCEPT !.pc = "prompt", !.attempts = 0, !.executed = 0, !.validated = 0]
  /\ UNCHANGED <<repo, tracked, staged, commits, branches, current, check, failing,
                 verdict, norm>>

\* the prompt returns an empty command: 'Skipping step.', runStep returns
\* false and runLesson stops
SkipStep ==
  /\ run.pc = "prompt"
  /\ run' = [run EXCEPT !.pc = "stopped", !.why = "skipped"]
  /\ UNCHANGED <<world, check, failing, verdict, norm>>

\* the prompt returns a command
TypeCommand(text) ==
  /\ run.pc = "prompt"
  /\ run' = [run EXCEPT !.pc = "execute", !.typed = text]
  /\ UNCHANGED <<world, check, failing, verdict, norm>>

\* executeCommand of a command that changes nothing in the working
\* directory: it fails (status 1) or only prints (status 0)
CommandWithoutEffect(status) ==
  /\ run.pc = "execute"
  /\ run' = [run EXCEPT !.pc = "validate", !.executed = @ + 1, !.exit = status]
  /\ UNCHANGED <<world, check, failing, verdict, norm>>

\* Mutant of StepVerdict: a command that exits with an error fails the step.
StepVerdictByExit(step, typed, exit, fail) ==
  IF exit # 0
  THEN Result(FALSE, Msg("Command failed", <<>>), UNDEF, <<>>)
  ELSE validateStep(step.validation, fail)

\* const validation = await validateStep(step.validation, workdir)
StepVerdict(step, typed, exit, fail) == validateStep(step.validation, fail)

RunValidate(fail) ==
  /\ run.pc = "validate"
  /\ check' = CurrentStep.validation
  /\ failing' = fail
  /\ verdict' = StepVerdict(CurrentStep, run.typed, run.exit, fail)
  /\ run' = [run EXCEPT !.pc = "report", !.validated = @ + 1]
  /\ UNCHANGED <<world, norm>>

\* Mutant of AfterVerdict: the step is given up after the second failure.
AfterVerdictTwoTries(r, passed) ==
  IF passed
  THEN [r EXCEPT !.pc = "mark", !.passed = @ \cup {r.index}]
  ELSE IF r.attempts + 1 >= maxAttempts - 1
       THEN [r EXCEPT !.pc = "stopped", !.attempts = @ + 1, !.why = "exhausted"]
       ELSE [r EXCEPT !.pc = "prompt", !.attempts = @ + 1]

\* runStep after the validation: return true on a pass; else count the
\* attempt and return false at maxAttempts
AfterVerdict(r, passed) ==
  IF passed
  THEN [r EXCEPT !.pc = "mark", !.passed = @ \cup {r.index}]
  ELSE IF r.attempts + 1 >= maxAttempts
       THEN [r EXCEPT !.pc = "stopped", !.attempts = @ + 1, !.why = "exhausted"]
       ELSE [r EXCEPT !.pc = "prompt", !.attempts = @ + 1]

RunReport ==
  /\ run.pc = "report"
  /\ run' = [AfterVerdict(run, verdict.passed) EXCEPT !.typed = "", !.exit = 0]
  /\ check' = NoCheck
  /\ failing' = {}
  /\ verdict' = NoVerdict
  /\ UNCHANGED <<world, norm>>

\* completedSteps.push(stepId) unless it is there
PushOnce(list, id) ==
  IF \E i \in 1..Len(list) : list[i] = id THEN list ELSE Append(list, id)

\* markStepComplete, whose saveProgress may fail (the error is logged), and
\* the loop of runLesson going on to the next step or to 'Lesson complete'
MarkStepComplete(saved) ==
  /\ run.pc = "mark"
  /\ run' = [run EXCEPT
               !.completed = IF saved THEN PushOnce(@, CurrentStep.id) ELSE @,
               !.pc = IF run.index >= run.total THEN "complete" ELSE "setup",
               !.index = IF run.index >= run.total THEN @ ELSE @ + 1]
  /\ UNCHANGED <<world, check, failing, verdict, norm>>

NextLesson ==
  \/ SetupStep
  \/ SkipStep
  \/ \E text \in CommandTexts : TypeCommand(text)
  \/ GitInit
  \/ \E p \in GitSessionPaths : WriteFile(<<p>>, HelloText)
  \/ \E p \in GitSessionPaths : GitAdd(p)
  \/ \E status \in {0, 1} : CommandWithoutEffect(status)
  \/ \E fail \in FailuresFor(CurrentStep.validation.type) : RunValidate(fail)
  \/ RunReport
  \/ \E saved \in BOOLEAN : MarkStepComplete(saved)

SpecLesson == InitLesson /\ [][NextLesson]_vars

\* Sessions that create README.md and readme.md as files or as folders,
\* stage and commit them, and run the four checks that emit case notes; the
\* file field may also spell README.md with a repeated './' prefix.
DotSlashTwiceReadme == <<".", "/", ".", "/">> \o README_md

NoteDescriptors ==
       {d \in Descriptors :
          d.type \in {"file-exists", "files-exist", "file-staged", "file-committed"}}
  \cup {Descriptor("file-committed", DotSlashTwiceReadme, NOFILES, UNDEF, UNDEF, UNDEF)}

NextNotes ==
  \/ \E p \in GitSessionPaths : WriteFile(<<p>>, HelloText)
  \/ \E p \in GitSessionPaths : Mkdir(<<p>>)
  \/ \E p \in GitSessionPaths : Remove(<<p>>)
  \/ GitInit
  \/ \E p \in GitSessionPaths : GitAdd(p)
  \/ GitCommit(AddReadme)
  \/ \E v \in NoteDescriptors : \E fail \in FailuresFor(v.type) : Validate(v, fail)
  \/ Report

SpecNotes == Init /\ [][NextNotes]_vars

(***************************************************************************)
(* What a descriptor's file field means, stated without the engine's own   *)
(* path functions: the directory and the name it asks for.                 *)
(***************************************************************************)

ExpectedDir(f) == IF f = DocsReadme THEN <<docs>> ELSE <<>>

ExpectedName(f) ==
  CASE f = README_md      -> README_md
    [] f = readme_md      -> readme_md
    [] f = Readme_md      -> Readme_md
    [] f = DotSlashReadme -> README_md
    [] f = DocsReadme     -> README_md
    [] f = DotSlashTwiceReadme -> README_md

\* the normalized relative path of a name in a directory
PathText(dir, name) == IF dir = <<>> THEN name ELSE dir[1] \o <<"/">> \o name

CaseVariants == {README_md, readme_md, Readme_md}

SameIgnoringCase(a, b) == a = b \/ {a, b} \subseteq CaseVariants

\* the entries of a directory whose names equal `name` ignoring case
Matching(dir, name) ==
  {n \in {DirOrder[i] : i \in 1..Len(DirOrder)} :
     Holds(Append(dir, n)).kind # "none" /\ SameIgnoringCase(n, name)}

Readable(dir) == dir = <<>> \/ disk[dir].kind = "dir"

Named(message) == {message.names[i] : i \in 1..Len(message.names)}

Checked(type) == check.type = type

(***************************************************************************)
(* C1: validateStep never throws: whatever the descriptor and the state    *)
(* of the filesystem, git and the executor, it returns a verdict with a    *)
(* boolean passed and a message, and when the evaluator fails internally   *)
(* (an exception leaves it) the verdict has passed = FALSE.                *)
(***************************************************************************)
C1_NeverThrows ==
  check # NoCheck =>
    /\ verdict.thrown = FALSE
    /\ verdict.passed \in BOOLEAN
    /\ verdict.message.kind # "none"
    /\ Evaluate(check, failing).thrown =>
         /\ ~verdict.passed
         /\ verdict.message = Evaluate(check, failing).message

\* fs.stat fails inside file-committed, on a dead link, and the call returns
C1_Witness ==
  /\ Checked("file-committed")
  /\ Evaluate(check, failing).thrown
  /\ verdict.message = StatError(README_md)
  /\ ~verdict.passed

(***************************************************************************)
(* C2: with a readable parent directory, file-exists passes exactly when   *)
(* the directory holds one entry equal to the expected name ignoring case  *)
(* and that entry is a regular file; resolvedFile is then the path with    *)
(* the entry's on-disk name.                                               *)
(***************************************************************************)
C2_FileExists ==
  (Checked("file-exists") /\ check.file # UNDEF /\ Readable(ExpectedDir(check.file))) =>
    LET dir == ExpectedDir(check.file)
        found == Matching(dir, ExpectedName(check.file))
        unique == /\ Cardinality(found) = 1
                  /\ \A n \in found : Holds(Append(dir, n)).kind = "file"
    IN  /\ verdict.passed <=> unique
        /\ verdict.passed => \A n \in found : verdict.resolvedFile = PathText(dir, n)

\* only the case-variant readme.md is on disk, README.md is asked for
C2_Witness ==
  /\ Checked("file-exists")
  /\ check.file = README_md
  /\ Matching(<<>>, README_md) = {readme_md}
  /\ verdict.passed
  /\ verdict.resolvedFile = readme_md

(***************************************************************************)
(* C3: when a directory holds two or more entries equal ignoring case,     *)
(* file-exists for any of these names fails, also when one entry matches   *)
(* exactly, the message names every colliding entry, and no entry is       *)
(* picked as the resolved file.                                            *)
(***************************************************************************)
C3_Ambiguous ==
  (Checked("file-exists") /\ check.file # UNDEF) =>
    LET found == Matching(ExpectedDir(check.file), ExpectedName(check.file))
    IN  (Readable(ExpectedDir(check.file)) /\ Cardinality(found) >= 2) =>
          /\ ~verdict.passed
          /\ found \subseteq Named(verdict.message)
          /\ verdict.resolvedFile = UNDEF

\* README.md and readme.md are both there and README.md is asked for
C3_Witness ==
  /\ Checked("file-exists")
  /\ check.file = README_md
  /\ {README_md, readme_md} \subseteq Matching(<<>>, README_md)
  /\ disk[<<README_md>>].kind = "file"
  /\ ~verdict.passed
  /\ {README_md, readme_md} \subseteq Named(verdict.message)

(***************************************************************************)
(* Git-side vocabulary of the claims                                       *)
(***************************************************************************)

\* the staged entries equal to `name` ignoring case
StagedLike(name) == {e \in staged : SameIgnoringCase(e, name)}

\* the paths some commit touches
Touched == UNION {commits[i].paths : i \in 1..Len(commits)}

\* the staged list is read: a repository, and git diff --cached runs
StagedListRead == repo /\ "diff-cached" \notin failing

\* the one regular file of the working directory named `name` ignoring case
OnlyFile(n, name) ==
  Matching(<<>>, name) = {n} /\ Holds(<<n>>).kind = "file"

(***************************************************************************)
(* C4: when the staged list is read, file-staged on f passes exactly when  *)
(* the normalized f is staged verbatim or exactly one staged entry equals  *)
(* it ignoring case; a verbatim entry wins over other staged case-variants;*)
(* with no staged entry equal ignoring case the verdict fails with the     *)
(* "not staged" message that suggests git add f.                           *)
(***************************************************************************)
C4_FileStaged ==
  (Checked("file-staged") /\ check.file # UNDEF /\ StagedListRead) =>
    LET name == ExpectedName(check.file)
        like == StagedLike(name)
    IN  /\ verdict.passed <=> (name \in staged \/ Cardinality(like) = 1)
        /\ (name \in staged /\ Cardinality(like) > 1) =>
             /\ verdict.passed
             /\ verdict.message = Msg("File {0} is staged", <<check.file>>)
        /\ like = {} =>
             /\ ~verdict.passed
             /\ verdict.message =
                  Msg("File {0} is not staged. Try: git add {0}", <<check.file>>)

\* README.md and readme.md are both staged and README.md is asked for
C4_Witness ==
  /\ Checked("file-staged")
  /\ check.file = README_md
  /\ StagedListRead
  /\ staged = {README_md, readme_md}
  /\ verdict.passed

(***************************************************************************)
(* C5 as stated: file-staged on README.md fails when only readme.md is     *)
(* staged, and the failure message names the staged casing readme.md.      *)
(***************************************************************************)
C5_FailsOnCaseMismatch ==
  (Checked("file-staged") /\ check.file = README_md /\ StagedListRead
     /\ staged = {readme_md}) =>
    /\ ~verdict.passed
    /\ readme_md \in Named(verdict.message)

(***************************************************************************)
(* C5 as the code has it: file-staged on README.md passes when only        *)
(* readme.md is staged; the verdict message and the emitted note both name *)
(* the staged casing readme.md.                                            *)
(***************************************************************************)
C5_PassesNamingStagedCase ==
  (Checked("file-staged") /\ check.file = README_md /\ StagedListRead
     /\ staged = {readme_md}) =>
    /\ verdict.passed
    /\ verdict.message = Msg("File {0} is staged (as {1})", <<README_md, readme_md>>)
    /\ verdict.notes = <<StagedNote(readme_md, README_md)>>

C5_Witness ==
  /\ Checked("file-staged")
  /\ check.file = README_md
  /\ StagedListRead
  /\ staged = {readme_md}
  /\ readme_md \in Named(verdict.message)

(***************************************************************************)
(* C6: in a repository, file-committed on a file fails with the "create    *)
(* the file" message while no entry of that name is on disk; fails with    *)
(* the "stage it" message once the regular file exists and is neither      *)
(* staged nor in a commit; fails with the "commit it" message once it is   *)
(* staged and no commit touches it; passes once a commit touches it; and   *)
(* never passes while no commit touches it.                                *)
(***************************************************************************)
C6_CommitPhases ==
  (Checked("file-committed") /\ check.file # UNDEF /\ repo) =>
    LET name == ExpectedName(check.file)
        like == StagedLike(name)
    IN  /\ Matching(<<>>, name) = {} =>
             /\ ~verdict.passed
             /\ verdict.message.kind = "Progress: create the file {0}. Example: {hint}"
        /\ \A n \in CaseVariants :
             (OnlyFile(n, name) /\ failing = {}) =>
               /\ (like = {} /\ Touched \cap CaseVariants = {}) =>
                    /\ ~verdict.passed
                    /\ verdict.message =
                         Msg("Progress: file created. Next: stage it. Run: git add {0}", <<n>>)
               /\ (like # {} /\ Touched \cap CaseVariants = {}) =>
                    /\ ~verdict.passed
                    /\ verdict.message.kind =
                         "Progress: file staged. Next: commit it. Run: git commit -m add {0}"
               /\ n \in Touched => verdict.passed
        /\ verdict.passed => Touched \cap CaseVariants # {}

\* README.md was created, staged and committed, and the check passes
C6_Witness ==
  /\ Checked("file-committed")
  /\ check.file = README_md
  /\ OnlyFile(README_md, README_md)
  /\ README_md \in Touched
  /\ staged = {}
  /\ verdict.passed
  /\ verdict.resolvedFile = README_md

(***************************************************************************)
(* C7: the end-to-end sequence.  In a directory without a repository       *)
(* git-initialized fails with "not found", and after git init it passes;   *)
(* with readme.md written, file-exists on README.md passes with            *)
(* resolvedFile readme.md and a warning; with readme.md staged,            *)
(* file-staged on README.md passes through the case-insensitive match;     *)
(* with readme.md committed, file-committed on README.md passes.           *)
(***************************************************************************)
C7_EndToEnd ==
  /\ Checked("git-initialized") =>
       IF repo
       THEN verdict.passed
       ELSE /\ ~verdict.passed
            /\ verdict.message = Msg("Git repository not found. Try: git init", <<>>)
  /\ (Checked("file-exists") /\ check.file = README_md /\ OnlyFile(readme_md, README_md)) =>
       /\ verdict.passed
       /\ verdict.resolvedFile = readme_md
       /\ verdict.notes = <<CaseNote(readme_md, README_md)>>
  /\ (Checked("file-staged") /\ check.file = README_md /\ OnlyFile(readme_md, README_md)
        /\ staged = {readme_md} /\ StagedListRead) =>
       /\ verdict.passed
       /\ verdict.message.kind = "File {0} is staged (as {1})"
  /\ (Checked("file-committed") /\ check.file = README_md /\ OnlyFile(readme_md, README_md)
        /\ repo /\ failing = {} /\ Touched = {readme_md}) =>
       /\ verdict.passed
       /\ verdict.resolvedFile = readme_md

\* the last step of the sequence: readme.md written, staged and committed
\* after git init, and file-committed on README.md passes
C7_Witness ==
  /\ Checked("file-committed")
  /\ check.file = README_md
  /\ repo
  /\ OnlyFile(readme_md, README_md)
  /\ tracked = {readme_md}
  /\ staged = {}
  /\ Touched = {readme_md}
  /\ verdict.passed
  /\ verdict.notes # <<>>

(***************************************************************************)
(* C9: for a type string that is none of the check kinds, validateStep     *)
(* returns passed = FALSE with a message naming that type string, the same *)
(* verdict in every state and whatever the executor would do: no evaluator *)
(* output and no resolved file are in it.                                  *)
(***************************************************************************)
C9_UnknownType ==
  (check # NoCheck /\ check.type \notin KnownTypes) =>
    /\ ~verdict.passed
    /\ verdict.message.type = check.type
    /\ verdict = Result(FALSE,
                        [kind |-> "Unknown validation type: {type}", names |-> <<>>,
                         type |-> check.type],
                        UNDEF, <<>>)

\* the misspelt kind file-exist, with README.md on disk, in a repository
\* whose git commands all fail
C9_Witness ==
  /\ check # NoCheck
  /\ check.type = Bogus
  /\ Holds(<<README_md>>).kind = "file"
  /\ repo
  /\ failing = Commands
  /\ ~verdict.passed

(***************************************************************************)
(* C10: a descriptor of a kind that requires a field (file, files, branch, *)
(* content), with that field missing, yields passed = FALSE in every       *)
(* state.                                                                  *)
(***************************************************************************)
MissingRequiredField ==
  \/ /\ check.type \in {"file-exists", "file-staged", "file-committed", "file-contains"}
     /\ check.file = UNDEF
  \/ /\ check.type \in {"files-exist", "files-staged"}
     /\ check.files = NOFILES
  \/ /\ check.type \in {"branch-exists", "branch-active"}
     /\ check.branch = UNDEF
  \/ /\ check.type = "file-contains"
     /\ check.content = UNDEF

C10_FailsClosed ==
  MissingRequiredField => (~verdict.thrown /\ ~verdict.passed)

(***************************************************************************)
(* C11: whenever a git subprocess an evaluator runs fails, the verdict is  *)
(* failed with a generic "failed to check" message: never a pass and never *)
(* a not-found message such as "No commits found" or "stage it".           *)
(***************************************************************************)
GenericFailures ==
  {"Failed to check git status", "Failed to list branches",
   "Failed to check current branch"}

\* a git command the evaluation certainly ran, in a repository, failed in
\* the executor
RanAndFailed ==
  /\ repo
  /\ \/ check.type \in {"file-staged", "files-staged"} /\ "diff-cached" \in failing
     \/ check.type = "commit-exists" /\ "log-1" \in failing /\ commits # <<>>
     \/ check.type = "branch-exists" /\ "branch" \in failing
     \/ check.type = "branch-active" /\ "show-current" \in failing
     \/ /\ check.type = "file-committed"
        /\ check.file # UNDEF
        /\ \E n \in CaseVariants : OnlyFile(n, ExpectedName(check.file))
        /\ failing \cap {"ls-files", "log-path"} # {}

C11_FailedToCheck ==
  RanAndFailed =>
    /\ ~verdict.passed
    /\ verdict.message.kind \in GenericFailures

(***************************************************************************)
(* C12: whenever two or more entries of the consulted directory or git     *)
(* entry list equal the expected path ignoring case, the check fails and   *)
(* its message enumerates every colliding name (file-exists, files-exist,  *)
(* file-committed on the directory; file-staged and files-staged on the    *)
(* staged list, where a verbatim entry is an exact match and no collision).*)
(***************************************************************************)
\* the listed paths of a files-exist / files-staged descriptor
Listed == IF check.files = NOFILES THEN {} ELSE {check.files[i] : i \in 1..Len(check.files)}

\* the path asks for a name of the working directory
AsksRootName(f) == f \in {README_md, readme_md, Readme_md, DotSlashReadme}

CollidingOnDisk(f) ==
  IF AsksRootName(f) /\ Cardinality(Matching(<<>>, ExpectedName(f))) >= 2
  THEN Matching(<<>>, ExpectedName(f)) ELSE {}

CollidingStaged(f) ==
  IF AsksRootName(f) /\ ExpectedName(f) \notin staged
       /\ Cardinality(StagedLike(ExpectedName(f))) >= 2
  THEN StagedLike(ExpectedName(f)) ELSE {}

C12_AmbiguityNamesAll ==
  /\ (check.type \in {"file-exists", "file-committed"} /\ check.file # UNDEF
        /\ CollidingOnDisk(check.file) # {}) =>
       /\ ~verdict.passed
       /\ CollidingOnDisk(check.file) \subseteq Named(verdict.message)
  /\ (Checked("files-exist") /\ \E f \in Listed : CollidingOnDisk(f) # {}) =>
       /\ ~verdict.passed
       /\ \E f \in Listed : /\ CollidingOnDisk(f) # {}
                            /\ CollidingOnDisk(f) \subseteq Named(verdict.message)
  /\ (Checked("file-staged") /\ check.file # UNDEF /\ StagedListRead
        /\ CollidingStaged(check.file) # {}) =>
       /\ ~verdict.passed
       /\ CollidingStaged(check.file) \subseteq Named(verdict.message)
  /\ (Checked("files-staged") /\ StagedListRead
        /\ \E f \in Listed : CollidingStaged(f) # {}) =>
       /\ ~verdict.passed
       /\ \E f \in Listed : /\ CollidingStaged(f) # {}
                            /\ CollidingStaged(f) \subseteq Named(verdict.message)

(***************************************************************************)
(* C13: case tolerance in every file-based evaluator.  When the only entry *)
(* matching the expected name is one case-variant of it, file-exists,      *)
(* files-exist, file-staged, files-staged, file-committed and              *)
(* file-contains are evaluated against that entry and pass when they would *)
(* pass for the exactly-cased name.                                        *)
(***************************************************************************)
\* the one regular file on disk that f names ignoring case, in another case
VariantOnDisk(f, n) ==
  AsksRootName(f) /\ n # ExpectedName(f) /\ OnlyFile(n, ExpectedName(f))

\* the one staged entry that f names ignoring case, in another case
VariantStaged(f, n) ==
  AsksRootName(f) /\ n # ExpectedName(f) /\ StagedLike(ExpectedName(f)) = {n}

C13_CaseTolerance ==
  \A n \in CaseVariants :
    /\ (Checked("file-exists") /\ VariantOnDisk(check.file, n)) => verdict.passed
    /\ (Checked("files-exist") /\ Listed # {} /\ \A f \in Listed : VariantOnDisk(f, n)) =>
         verdict.passed
    /\ (Checked("file-staged") /\ StagedListRead /\ VariantStaged(check.file, n)) =>
         verdict.passed
    /\ (Checked("files-staged") /\ StagedListRead /\ Listed # {}
          /\ \A f \in Listed : VariantStaged(f, n)) =>
         verdict.passed
    /\ (Checked("file-committed") /\ repo /\ failing = {} /\ VariantOnDisk(check.file, n)
          /\ n \in Touched) =>
         verdict.passed
    /\ (Checked("file-contains") /\ VariantOnDisk(check.file, n)
          /\ check.content # UNDEF /\ Holds(<<n>>) = File(check.content)) =>
         verdict.passed

(***************************************************************************)
(* C14: every failed verdict that is not an ambiguous-casing failure       *)
(* carries in its message a concrete next action: a suggested command or   *)
(* fix (stated for well-formed descriptors of the known kinds).            *)
(***************************************************************************)
\* the messages that say what to do next (Try:, Run:, Example:, Fix:,
\* Do not use mkdir)
ActionKinds ==
  {"Git repository not found. Try: git init",
   "A folder named {0} exists, but a file named {1} is required. Do not use mkdir. Fix: {fix}",
   "A folder named {0} exists, but a file named {1} is required. Do not use mkdir.",
   "File {0} is not staged. Try: git add {0}",
   "Progress: create the file {0}. Example: {hint}",
   "Progress: file created. Next: stage it. Run: git add {0}",
   "Progress: file staged. Next: commit it. Run: git commit -m add {0}",
   "No commits found. Try: git commit -m message",
   "Branch {0} not found. Try: git branch {0}",
   "Not on branch {0}. Current: {1}. Try: git checkout {0}"}

AmbiguityKinds ==
  {"Multiple entries match {0} with different casing: {1..}. Keep only one.",
   "Multiple staged files match {0} ignoring case. Keep only one.",
   "Multiple tracked files match {0} ignoring case. Keep only one."}

C14_NextAction ==
  (check.type \in KnownTypes /\ ~MissingRequiredField
     /\ ~verdict.passed /\ verdict.message.kind \notin AmbiguityKinds) =>
    verdict.message.kind \in ActionKinds

(***************************************************************************)
(* C15: files-exist on a list passes exactly when every listed path        *)
(* resolves, by the one case-insensitive match of its name in its parent   *)
(* directory, to a regular file; for the empty list it passes.             *)
(***************************************************************************)
\* the name a listed path asks for in its directory
AskedName(f) == IF f = docs THEN docs ELSE ExpectedName(f)

\* the entries of the path's directory that equal its name ignoring case
Candidates(f) ==
  IF Readable(ExpectedDir(f)) THEN Matching(ExpectedDir(f), AskedName(f)) ELSE {}

KindOf(f, n) == Holds(Append(ExpectedDir(f), n)).kind

ResolvesToFile(f) ==
  /\ Cardinality(Candidates(f)) = 1
  /\ \A n \in Candidates(f) : KindOf(f, n) = "file"

C15_FilesExist ==
  (Checked("files-exist") /\ check.files # NOFILES) =>
    (verdict.passed <=> \A f \in Listed : ResolvesToFile(f))

\* README.md in the working directory and docs/readme.md for docs\README.md
C15_Witness ==
  /\ Checked("files-exist")
  /\ check.files = <<README_md, DocsReadme>>
  /\ Candidates(DocsReadme) = {readme_md}
  /\ verdict.passed
  /\ verdict.notes # <<>>

\* the empty list passes
C15_WitnessEmpty ==
  Checked("files-exist") /\ check.files = <<>> /\ verdict.passed

(***************************************************************************)
(* C16 as stated: in files-exist, whenever a listed path resolves to a     *)
(* directory the verdict is the failed wrong-type message naming all       *)
(* wrong-type paths, before every other diagnostic about the other listed  *)
(* paths; the missing-paths message comes only when no listed path is      *)
(* wrong-type and some are missing.                                        *)
(***************************************************************************)
WrongTypeKind == "A folder exists where a file is required: {0..}"
MissingKind   == "Missing files: {0..}"

WrongType(f) ==
  Cardinality(Candidates(f)) = 1 /\ \A n \in Candidates(f) : KindOf(f, n) = "dir"

Missing(f) == Candidates(f) = {}

\* the path has several case-insensitive matches, or its one match cannot
\* be stat'ed
Unresolvable(f) ==
  \/ Cardinality(Candidates(f)) >= 2
  \/ /\ Cardinality(Candidates(f)) = 1
     /\ \A n \in Candidates(f) : KindOf(f, n) \notin {"file", "dir"}

StagedFor(f) ==
  AskedName(f) \in staged \/ Cardinality(StagedLike(AskedName(f))) = 1

AmbiguousStaged(f) ==
  AskedName(f) \notin staged /\ Cardinality(StagedLike(AskedName(f))) >= 2

C17_FilesStaged ==
  (Checked("files-staged") /\ check.files # NOFILES /\ StagedListRead) =>
    /\ verdict.passed <=> \A f \in Listed : StagedFor(f)
    /\ ((\A f \in Listed : ~AmbiguousStaged(f)) /\ (\E f \in Listed : ~StagedFor(f))) =>
         /\ verdict.message.kind = "Files not staged: {0..}"
         /\ Named(verdict.message) = {f \in Listed : ~StagedFor(f)}

\* readme.md is staged for README.md and docs is not staged: docs alone
\* is listed
C17_Witness ==
  /\ Checked("files-staged")
  /\ check.files = <<docs, README_md>>
  /\ StagedListRead
  /\ staged = {readme_md}
  /\ Named(verdict.message) = {docs}

\* two listed paths, none staged: both are listed
C17_WitnessBoth ==
  /\ Checked("files-staged")
  /\ check.files = <<readme_md, README_md>>
  /\ StagedListRead
  /\ staged = {}
  /\ Named(verdict.message) = {readme_md, README_md}

(***************************************************************************)
(* C18: in file-committed the path looked up in git log comes from the     *)
(* tracked list: the on-disk path when it is tracked verbatim, else the    *)
(* one tracked entry equal to it ignoring case; with two or more tracked   *)
(* entries equal to it ignoring case and none verbatim the verdict is the  *)
(* ambiguity failure, whatever git log would say.                          *)
(***************************************************************************)
TrackedLike(name) == {e \in tracked : SameIgnoringCase(e, name)}

\* the tracked list and git log are read
TrackedRead == repo /\ failing \cap {"ls-files", "log-path"} = {}

C18_CommitTarget ==
  (Checked("file-committed") /\ check.file # UNDEF /\ TrackedRead) =>
    \A n \in CaseVariants :
      OnlyFile(n, ExpectedName(check.file)) =>
        /\ n \in tracked =>
             /\ verdict.passed <=> n \in Touched
             /\ verdict.passed => verdict.resolvedFile = n
        /\ (n \notin tracked /\ Cardinality(TrackedLike(n)) = 1) =>
             \A t \in TrackedLike(n) :
               /\ verdict.passed <=> t \in Touched
               /\ verdict.passed => verdict.resolvedFile = t
        /\ (n \notin tracked /\ Cardinality(TrackedLike(n)) >= 2) =>
             /\ ~verdict.passed
             /\ verdict.message =
                  Msg("Multiple tracked files match {0} ignoring case. Keep only one.",
                      <<check.file>>)
             /\ verdict.resolvedFile = UNDEF

\* Readme.md alone is on disk, README.md and readme.md are tracked and
\* committed: the evaluator fails with the ambiguity message
C18_Witness ==
  /\ Checked("file-committed")
  /\ check.file = README_md
  /\ TrackedRead
  /\ OnlyFile(Readme_md, README_md)
  /\ tracked = {README_md, readme_md}
  /\ Touched = {README_md, readme_md}
  /\ ~verdict.passed

\* Readme.md alone is on disk, readme.md is tracked and committed: the
\* lookup is made for readme.md
C18_WitnessVariant ==
  /\ Checked("file-committed")
  /\ check.file = README_md
  /\ TrackedRead
  /\ OnlyFile(Readme_md, README_md)
  /\ tracked = {readme_md}
  /\ verdict.passed
  /\ verdict.resolvedFile = readme_md

(***************************************************************************)
(* C19: commit-exists with no message passes exactly when the repository   *)
(* has a commit; with a message substring it passes exactly when a commit  *)
(* exists and the latest commit's message contains the substring; with no  *)
(* commit it fails with "No commits found", with a latest message that     *)
(* does not contain the substring with "Commit message doesn't match".     *)
(***************************************************************************)
\* m occurs in text
Occurs(m, text) ==
  \E i \in 1..(Len(text) - Len(m) + 1) : SubSeq(text, i, i + Len(m) - 1) = m

Latest == commits[Len(commits)]

C19_CommitExists ==
  (Checked("commit-exists") /\ "log-1" \notin failing) =>
    /\ commits = <<>> =>
         /\ ~verdict.passed
         /\ verdict.message.kind = "No commits found. Try: git commit -m message"
    /\ (commits # <<>> /\ check.message = UNDEF) => verdict.passed
    /\ (commits # <<>> /\ check.message # UNDEF) =>
         IF Occurs(check.message, Latest.message)
         THEN verdict.passed
         ELSE /\ ~verdict.passed
              /\ verdict.message =
                   Msg("Commit message doesn't match. Expected: {0}", <<check.message>>)

\* two commits; the earlier message holds the substring, the latest does
\* not, and the check fails
C19_Witness ==
  /\ Checked("commit-exists")
  /\ "log-1" \notin failing
  /\ Len(commits) = 2
  /\ check.message = Initial
  /\ Occurs(Initial, commits[1].message)
  /\ ~Occurs(Initial, Latest.message)
  /\ ~verdict.passed

\* the latest of two commits holds the substring, the earlier does not
C19_WitnessLatest ==
  /\ Checked("commit-exists")
  /\ Len(commits) = 2
  /\ check.message = Initial
  /\ ~Occurs(Initial, commits[1].message)
  /\ verdict.passed

(***************************************************************************)
(* C20: when the branch listing succeeds, branch-exists on b passes        *)
(* exactly when b is the name of a branch of the repository (exact,        *)
(* case-sensitive); it does not pass for a name that is no branch, also    *)
(* when the repository has no branch yet.                                  *)
(***************************************************************************)
BranchesListed == repo /\ "branch" \notin failing

C20_BranchExists ==
  (Checked("branch-exists") /\ check.branch # UNDEF /\ BranchesListed) =>
    (verdict.passed <=> check.branch \in branches)

(***************************************************************************)
(* C21: when the current-branch query succeeds, branch-active on b passes  *)
(* exactly when the current branch is b; otherwise it fails with the       *)
(* message naming b and the current branch and suggesting git checkout b.  *)
(* A branch that exists and is not checked out does not pass.              *)
(***************************************************************************)
CurrentRead == repo /\ "show-current" \notin failing

C21_BranchActive ==
  (Checked("branch-active") /\ check.branch # UNDEF /\ CurrentRead) =>
    /\ verdict.passed <=> check.branch = current
    /\ ~verdict.passed =>
         verdict.message =
           Msg("Not on branch {0}. Current: {1}. Try: git checkout {0}",
               <<check.branch, current>>)

\* feature exists, main is checked out, feature is asked for
C21_Witness ==
  /\ Checked("branch-active")
  /\ check.branch = feature
  /\ CurrentRead
  /\ feature \in branches
  /\ current = main
  /\ ~verdict.passed

\* after git checkout feature the check passes
C21_WitnessActive ==
  /\ Checked("branch-active")
  /\ check.branch = feature
  /\ current = feature
  /\ verdict.passed

(***************************************************************************)
(* C22: the path normalizer is idempotent: normalizing a normalized path   *)
(* gives it back, for every input, and a normalized path has no leading    *)
(* './' segment.                                                           *)
(***************************************************************************)
Normalized(fn, x) == IF fn = "normalizeRel" THEN normalizeRel(x) ELSE normalizeGitEntry(x)

LeadingDotSlash(s) == Len(s) >= 2 /\ s[1] = "." /\ s[2] = "/"

C22_Idempotent ==
  norm.passes >= 1 =>
    /\ norm.result = Normalized(norm.fn, norm.given)
    /\ ~LeadingDotSlash(norm.result)

InStep == run.pc \in {"prompt", "execute", "validate", "report", "mark", "stopped"}

\* C24: within one step each attempt executes the typed command once and then
\* validates once; the step succeeds at the first passing validation and
\* fails after the third failed one, so at most 3 commands and 3 validations
\* per step; an empty input ends the step as failed without executing,
\* validating or counting an attempt.
C24_Attempts ==
  InStep =>
    /\ run.executed <= 3 /\ run.validated <= 3
    /\ run.pc \in {"prompt", "execute"} =>
         run.executed = run.attempts /\ run.validated = run.attempts /\ run.attempts < 3
    /\ run.pc = "validate" =>
         run.executed = run.attempts + 1 /\ run.validated = run.attempts
    /\ run.pc = "report" =>
         run.executed = run.attempts + 1 /\ run.validated = run.attempts + 1
    /\ run.pc = "mark" =>
         /\ run.index \in run.passed
         /\ run.executed = run.attempts + 1 /\ run.validated = run.attempts + 1
    /\ (run.pc = "stopped" /\ run.why = "exhausted") =>
         /\ run.index \notin run.passed
         /\ run.attempts = 3 /\ run.executed = 3 /\ run.validated = 3
    /\ (run.pc = "stopped" /\ run.why = "skipped") =>
         /\ run.index \notin run.passed
         /\ run.executed = run.attempts /\ run.validated = run.attempts /\ run.attempts < 3
C24_Witness == run.pc = "stopped" /\ run.why = "exhausted" /\ run.executed = 3
C24_WitnessSkipped == run.pc = "stopped" /\ run.why = "skipped" /\ run.attempts = 2
C24_WitnessPassed == run.pc = "mark" /\ run.attempts = 2 /\ run.validated = 3

StepIds(indices) == {LessonSteps[k].id : k \in indices}
Recorded(list) == {list[i] : i \in 1..Len(list)}

C25_State ==
  run.pc # "none" =>
    /\ run.index \in 1..Len(LessonSteps)
    /\ run.maxSteps # 0 => run.index <= run.maxSteps
    /\ run.passed = IF run.pc \in {"mark", "complete"} THEN 1..run.index ELSE 1..(run.index - 1)
    /\ Recorded(run.completed) \subseteq
         Recorded(run.before) \cup
           StepIds(IF run.pc = "complete" THEN 1..run.index ELSE 1..(run.index - 1))
    /\ \A i, j \in 1..Len(run.completed) :
         (i < j /\ run.completed[i] \notin Recorded(run.before)
                /\ run.completed[j] \notin Recorded(run.before)) =>
           \E a, b \in 1..Len(LessonSteps) :
             a < b /\ LessonSteps[a].id = run.completed[i] /\ LessonSteps[b].id = run.completed[j]
    /\ run.pc = "complete" =>
         run.index = IF run.maxSteps # 0 /\ run.maxSteps < Len(LessonSteps)
                     THEN run.maxSteps ELSE Len(LessonSteps)

C25_Step ==
  /\ run.pc \in {"stopped", "complete"} => run' = run
  /\ run'.pc = "setup" =>
       /\ run.pc = "mark" /\ run.index \in run.passed
       /\ run'.index = run.index + 1
  /\ run'.completed # run.completed =>
       /\ run.pc = "mark" /\ run.index \in run.passed
       /\ run'.completed = Append(run.completed, LessonSteps[run.index].id)
  /\ run'.index # run.index => run'.pc = "setup"

\* C25: runLesson runs the steps in lesson order (only the first maxSteps when
\* set); step i+1 is set up and started only after step i's validation
\* passed; a step is recorded as complete in the progress store only after
\* its validation passed and before the next step starts; the lesson stops at
\* the first failed or skipped step, after which no later step is run or
\* recorded; 'Lesson complete' is reached only when every step to run has
\* passed.
C25_LessonOrder == []C25_State /\ [][run # NoRun => C25_Step]_vars
C25_Witness == run.pc = "complete" /\ run.maxSteps = 2 /\ run.completed = <<step1, step2>>
C25_WitnessStopped == run.pc = "stopped" /\ run.index = 2 /\ run.completed = <<step1>> /\ run.before = <<>>
C25_WitnessAll == run.pc = "complete" /\ run.maxSteps = 0 /\ run.completed = <<step1, step2, step3>>

\* the working directory surely satisfies, or surely does not satisfy, the
\* check of the current step
StateSatisfies ==
  /\ failing = {}
  /\ CASE run.index = 1 -> repo
       [] run.index = 2 -> disk[<<README_md>>].kind = "file" /\ disk[<<readme_md>>].kind = "none"
       [] OTHER -> repo /\ disk[<<README_md>>].kind = "file" /\ README_md \in staged

StateViolates ==
  CASE run.index = 1 -> ~repo
    [] run.index = 2 -> \A n \in CaseVariants : disk[<<n>>].kind = "none"
    [] OTHER -> \A n \in CaseVariants : n \notin staged

\* C26: a step's verdict depends only on the filesystem and git state after
\* the command ran, never on the command's text or its exit status: whatever
\* was typed and however it exited the verdict is the same, so a failing or
\* unrelated command passes the step when the state satisfies the check, and
\* the expected command does not pass it when the state does not.
C26_StateBased ==
  run.pc = "report" =>
    /\ \A text \in CommandTexts, status \in {0, 1} :
         StepVerdict(CurrentStep, text, status, failing) = verdict
    /\ StateSatisfies => verdict.passed
    /\ StateViolates => ~verdict.passed
C26_Witness ==
  /\ run.pc = "report" /\ run.typed = "other" /\ run.exit = 1
  /\ StateSatisfies /\ verdict.passed
C26_WitnessExpected ==
  /\ run.pc = "report" /\ run.typed = "expected" /\ run.exit = 0
  /\ StateViolates /\ ~verdict.passed

(***************************************************************************)
(* Claims about the case notes                                             *)
(***************************************************************************)

NoteTypes == {"file-exists", "files-exist", "file-staged", "file-committed"}

FolderKinds ==
  {"A folder named {0} exists, but a file named {1} is required. Do not use mkdir. Fix: {fix}",
   "A folder exists where a file is required: {0..}",
   "A folder named {0} exists, but a file named {1} is required. Do not use mkdir."}

\* the name a note's second argument asks for: a file field as written, or
\* a name already
NoteAsked(a) ==
  IF a \in {DotSlashReadme, DocsReadme, DotSlashTwiceReadme} THEN README_md ELSE a

\* found is what asked names, in another case
NonExact(found, asked) ==
  found # NoteAsked(asked) /\ SameIgnoringCase(found, NoteAsked(asked))

Notes == {verdict.notes[i] : i \in 1..Len(verdict.notes)}

C27_FolderFirst ==
  (check # NoCheck /\ check.type \in {"file-exists", "files-exist", "file-committed"}
     /\ verdict.message.kind \in FolderKinds) =>
    verdict.notes = <<>>

C27_NotesOnlyNonExact ==
  (check # NoCheck /\ check.type \in NoteTypes) =>
    \A n \in Notes : NonExact(n.names[1], n.names[2])

C27_PassThroughMatchNoted ==
  \A n \in CaseVariants :
    /\ (Checked("file-exists") /\ verdict.passed /\ VariantOnDisk(check.file, n)) =>
         CaseNote(n, ExpectedName(check.file)) \in Notes
    /\ (Checked("file-staged") /\ verdict.passed /\ VariantStaged(check.file, n)) =>
         StagedNote(n, check.file) \in Notes

\* C27: the wrong-type diagnosis comes before case-tolerance messaging: in
\* file-exists, files-exist and file-committed a verdict that reports a
\* folder where a file is required carries no case note; a case note is
\* emitted only for a path matched by a non-exact case-insensitive match;
\* and whenever file-exists or file-staged passes through such a match the
\* note is emitted.
C27_WrongTypeFirst ==
  /\ C27_FolderFirst
  /\ C27_NotesOnlyNonExact
  /\ C27_PassThroughMatchNoted

====
